---- MODULE Spec2Model ----
(***************************************************************************)
(* Zeon (hlop3z/zeon): the worker lifecycle of src/zeon/__init__.py        *)
(* (start_server, BaseProcess, the signal handler), its HTTP request       *)
(* handling (HTTPRequest, the dynamically built handler class), its        *)
(* LazyObject and the route decorator of src/zeon/router.py.               *)
(*                                                                         *)
(* Spec      the lifecycle: the main process running start_server, the     *)
(*           signals delivered to it, and the worker process running run() *)
(* FairSpec  the same with the worker process scheduled fairly             *)
(* SpecHttp  the listener serving connections with the shipped handler,    *)
(*           handle_request, which passes no per-call headers              *)
(* FairHttp  the same with the listener, the handler threads and the       *)
(*           clients scheduled fairly                                      *)
(* SpecApi   the listener serving connections with handlers that call      *)
(*           HTTPRequest.response() with per-call headers                  *)
(* SpecReq   one connection served by the shipped handler, with request    *)
(*           bodies of up to MaxBody bytes under any Content-Length header *)
(* SpecRoute router.py: a handler registered with route(...) and calls of  *)
(*           the wrapper registration returns                              *)
(* SpecLazy  one LazyObject accessed by MaxThreads threads                 *)
(***************************************************************************)
EXTENDS Integers, Sequences, FiniteSets, TLC

\* ------------------------------------------------------------------ bounds
\* Signals delivered to the main process over one run.
MaxSignals == 2
\* Sleeps of the poll loop counted after the stop event is set (saturating).
MaxSleeps == 3
\* Connections made to the listener over one run.
MaxConns == 2
\* Bytes in a request body.
MaxBody == 2
\* Parameters a route handler declares.
MaxParams == 2
\* Calls made to a registered route's wrapper.
MaxCalls == 2
\* Threads that access one LazyObject.
MaxThreads == 2
\* Accesses each thread makes to it.
MaxAccesses == 2

\* --------------------------------------------------------------- constants
Signals == {"SIGINT", "SIGTERM"}
Capabilities == {"server", "on_event"}
\* The attributes the concrete class HTTPServer defines besides hook().
HTTPServer_caps == {"server"}
\* The worker classes considered: HTTPServer and subclasses of BaseProcess
\* that define any subset of the two attributes BaseProcess only annotates.
WorkerClasses == SUBSET Capabilities

VARIABLES
    caps,           \* attributes the constructed worker's class defines
    mpc,            \* main process: the line of start_server about to run
    hstack,         \* main thread: frames of stop_server, innermost last
    handlers,       \* signal -> "default" | "stop_server"
    stop_event,     \* worker._stop_event (shared with the child process)
    wpc,            \* worker process: position in run()
    werr,           \* the exception run() ended with, or "none"
    listener,       \* the daemon thread running self.server
    launches,       \* threads started by run_sync
    hookLog,        \* every hook() invocation, in order
    hooksReturned,  \* the indices of hookLog whose invocation has returned
    sigLog,         \* every signal delivered to the main process
    stopCalls,      \* completed calls of stop()
    sleepsAfterStop,\* sleeps the poll loop completed with the event set
    childInt,       \* where run() was when a KeyboardInterrupt reached it
    HTTP_HEADERS,   \* the module-level dict, as its items in insertion order
    conn,           \* connection -> its request, handler position, response
    handler,        \* the function f given to route(...)'s the_wrapper
    info,           \* the Operation built for it
    wcalls,         \* calls of the wrapper the_wrapper returned
    fcalls,         \* invocations of f
    wargs,          \* the arguments of the wrapper's latest call
    fargs,          \* the arguments f received in its latest invocation
    outcome,        \* how the wrapper's latest call ended
    stdout,         \* the lines printed by route's code
    factory,        \* LazyObject._factory: what the factory does when called
    wrapped,        \* LazyObject._wrapped
    lock,           \* LazyObject._lock: the thread holding it, or 0
    made,           \* invocations of the factory
    thr             \* thread -> its access to the LazyObject and position

mainVars == <<mpc, hstack, handlers>>
workerVars == <<wpc, werr, listener, launches>>
hookVars == <<hookLog, hooksReturned>>
logVars == <<sigLog, stopCalls, sleepsAfterStop, childInt>>

lifeVars == <<caps, mainVars, stop_event, workerVars, hookVars, logVars>>
httpVars == <<HTTP_HEADERS, conn>>
routeVars == <<handler, info, wcalls, fcalls, wargs, fargs, outcome, stdout>>
lazyVars == <<factory, wrapped, lock, made, thr>>

vars == <<lifeVars, httpVars, routeVars, lazyVars>>

Min(a, b) == IF a < b THEN a ELSE b

\* ------------------------------------------------------------ BaseProcess

\* BaseProcess.__init__: stores the options and creates the event, unset.
\* It inspects nothing of the class, so it succeeds for every class.
BaseProcess_init(cls) == [ok |-> TRUE, event |-> FALSE]

\* A stop() that flips the event instead of setting it.
stop_toggle(ev) == ~ev
\* BaseProcess.stop: self._stop_event.set()
stop(ev) == TRUE

\* A loop that never looks at the event.
loop_exits_never(ev) == FALSE
\* The condition that ends `while not self._stop_event.is_set()`.
loop_exits(ev) == ev

\* run(): which positions lie inside `try: ... except KeyboardInterrupt`.
in_try(pc) == pc \in {"run_sync", "poll", "sleep"}

Running(pc) == pc \in {"before_run", "run_sync", "poll", "sleep"}

\* ------------------------------------------------------------- HTTP data

Conns == 1..MaxConns

\* HTTP_HEADERS = {"X-Content-Type-Options": "nosniff"}
HTTP_HEADERS_default == << <<"X-Content-Type-Options", "nosniff">> >>
\* HTTP_METHODS, the verbs routed to handle_http
HTTP_METHODS == {"POST", "GET", "PUT", "DELETE", "PATCH"}
\* An Allow header that leaves OPTIONS itself out.
AllowValue_noOptions == "GET, POST, PUT, DELETE, PATCH"
\* The value do_options sends in the Allow header.
AllowValue == "GET, POST, PUT, DELETE, PATCH, OPTIONS"

\* The verbs clients send: GET and POST take the same path (handle_http),
\* OPTIONS its own.
ClientVerbs == {"GET", "POST", "OPTIONS"}
\* The Content-Length headers clients send: none, zero, a length, a negative
\* number, text that is no number.
ContentLengths == {"absent", "0", "1", "-1", "x"}
\* The requests clients send: the verb, the Content-Length header and the
\* number of body bytes the client then sends. A GET carries no body, a POST
\* any Content-Length, with the body sent or withheld when one is declared;
\* an OPTIONS declares a body it never sends.
Requests ==
    { r \in [verb : ClientVerbs, path : {"/echo"}, cl : ContentLengths,
             body : {<< >>, <<"1">>}] :
        /\ r.body # << >> => r.cl = "1"
        /\ r.verb = "GET" => r.cl = "absent"
        /\ r.verb = "OPTIONS" => r.cl = "1" /\ r.body = << >> }

\* The bytes of request bodies: the characters "{", "}", "1" and "x", and FF,
\* a byte that occurs in no UTF-8 encoding.
Bytes == {"{", "}", "1", "x", "FF"}
Bodies == UNION { [1..n -> Bytes] : n \in 0..MaxBody }
Paths == {"/echo", "/anything"}
\* Content-Length headers for bodies of up to MaxBody bytes.
BodyLengths == {"absent", "-1", "x"} \cup {ToString(n) : n \in 0..MaxBody}
\* Requests of every verb with any body under any Content-Length header:
\* the right length, a shorter or a longer one, none, or no number.
BodyRequests ==
    [verb : ClientVerbs, path : Paths, cl : BodyLengths, body : Bodies]
\* The headers argument handlers pass to response().
NoHeaders == << >>
PerCallHeaders ==
    { NoHeaders,
      << <<"X-Extra", "1">> >>,
      << <<"X-Content-Type-Options", "sniff">> >> }

\* int(http.headers.get("Content-Length", 0))
\* The header's text is read as a signed decimal number; the default 0 stands
\* in for an absent header; any other text raises ValueError.
Numerals == (0 - 1 - MaxBody)..(MaxBody + 1)
int(h) ==
    IF h = "absent" THEN [ok |-> TRUE, val |-> 0]
    ELSE IF \E n \in Numerals : ToString(n) = h
      THEN [ok |-> TRUE, val |-> CHOOSE n \in Numerals : ToString(n) = h]
    ELSE [ok |-> FALSE, val |-> 0]

\* A dict as the sequence of its items, in insertion order.
Range(d) == {d[i] : i \in DOMAIN d}
Keys(d) == {d[i][1] : i \in DOMAIN d}
IndexOf(d, k) == CHOOSE i \in DOMAIN d : d[i][1] = k
\* d[k] = v: an existing key keeps its place, a new one goes last.
dict_set(d, k, v) ==
    IF k \in Keys(d) THEN [d EXCEPT ![IndexOf(d, k)] = <<k, v>>]
                     ELSE Append(d, <<k, v>>)
\* d.update(h)
RECURSIVE dict_update(_, _)
dict_update(d, h) ==
    IF h = << >> THEN d
    ELSE dict_update(dict_set(d, Head(h)[1], Head(h)[2]), Tail(h))

\* JSON values: numbers and mappings, a mapping as the sequence of its items.
Number(n) == [t |-> "number", n |-> n, items |-> << >>]
Mapping(items) == [t |-> "mapping", n |-> 0, items |-> items]
EmptyMapping == Mapping(<< >>)
\* No value: input() has not returned.
NoValue == [t |-> "none", n |-> 0, items |-> << >>]

\* bytes.decode("utf-8"): a byte that is no UTF-8 raises UnicodeDecodeError.
decode(bytes) ==
    IF \E i \in DOMAIN bytes : bytes[i] = "FF"
      THEN [ok |-> FALSE, text |-> << >>]
      ELSE [ok |-> TRUE, text |-> bytes]

Digit(ch) == CHOOSE d \in 0..9 : ToString(d) = ch
RECURSIVE NumberOf(_)
NumberOf(text) ==
    IF text = << >> THEN 0
    ELSE 10 * NumberOf(SubSeq(text, 1, Len(text) - 1)) + Digit(text[Len(text)])
\* json.loads over the characters "{", "}", "1", "x": the JSON documents are
\* "{}" and the numbers 1, 11, ...; any other text, the empty one included,
\* raises JSONDecodeError.
json_loads(text) ==
    IF text = <<"{", "}">> THEN [ok |-> TRUE, val |-> EmptyMapping]
    ELSE IF text # << >> /\ \A i \in DOMAIN text : text[i] = "1"
      THEN [ok |-> TRUE, val |-> Number(NumberOf(text))]
    ELSE [ok |-> FALSE, val |-> NoValue]
\* JSON.loads(string): json.loads(string or ""), {} on JSONDecodeError.
\* A None string is the empty text.
JSON_loads(text) ==
    IF json_loads(text).ok THEN json_loads(text).val ELSE EmptyMapping

RECURSIVE Digits(_)
Digits(n) ==
    IF n < 10 THEN <<ToString(n)>>
    ELSE Digits(n \div 10) \o <<ToString(n % 10)>>
\* JSON.dumps(data): json.dumps(data).encode("utf-8"), with the separators
\* ", " and ": " of json.dumps; a key is one quoted token.
RECURSIVE JSON_dumps(_), dumps_items(_)
dumps_items(items) ==
    IF items = << >> THEN << >>
    ELSE (IF Len(items) > 1
            THEN dumps_items(SubSeq(items, 1, Len(items) - 1)) \o <<",", " ">>
            ELSE << >>)
         \o <<items[Len(items)][1], ":", " ">>
         \o JSON_dumps(items[Len(items)][2])
JSON_dumps(data) ==
    IF data.t = "number" THEN Digits(data.n)
    ELSE <<"{">> \o dumps_items(data.items) \o <<"}">>

\* The single-threaded server class of http.server.
server_class_plain == "HTTPServer"
\* server_class: ThreadingHTTPServer gives each accepted connection a thread
\* of its own; the plain HTTPServer handles it on the listener thread.
server_class == "ThreadingHTTPServer"

NoConn ==
    [pc |-> "closed", verb |-> "GET", path |-> "/echo", cl |-> "absent",
     body |-> << >>, sent |-> 0, arrived |-> 0, clen |-> 0, read |-> 0,
     input |-> NoValue, percall |-> NoHeaders, data |-> << >>,
     it |-> 0, itSize |-> 0, status |-> 0, out |-> << >>, wbody |-> << >>,
     cookies |-> << >>, err |-> "none", sawBlocked |-> FALSE]

\* ------------------------------------------------------------ router data

\* inspect.Parameter.empty, the marker of a parameter without a default and
\* of one without an annotation.
Empty == "Empty"
ParamNames == {"a", "b", "c"}
Annotations == {Empty, "int"}
Values == {"None", "1"}
\* The parameters a function can declare.
Params == [name : ParamNames, annotation : Annotations,
           default : {Empty} \cup Values]
\* The signatures Python accepts: parameter names differ, and no parameter
\* without a default follows one with a default.
Signatures ==
    { sg \in UNION { [1..n -> Params] : n \in 0..MaxParams } :
        /\ \A i, j \in DOMAIN sg : i # j => sg[i].name # sg[j].name
        /\ \A i, j \in DOMAIN sg :
              (i < j /\ sg[i].default # Empty) => sg[j].default # Empty }
\* What a handler's body does with the arguments bound to its parameters:
\* return them, return None, raise.
HandlerBodies == {"echo", "none", "raise"}
Handlers == [sign : Signatures, body : HandlerBodies]
NoHandler == [sign |-> << >>, body |-> "unset"]
\* The positional argument lists callers pass, one longer than any signature
\* takes included.
ArgLists == UNION { [1..n -> Values] : n \in 0..(MaxParams + 1) }

Returned(val) == [kind |-> "return", val |-> val]
Raised(exc) == [kind |-> "raise", val |-> <<exc>>]
NoOutcome == [kind |-> "none", val |-> << >>]
\* f(*args): Python binds the arguments to the parameters in order and the
\* defaults to the rest; too many arguments, or a parameter left without a
\* value, raise TypeError before the body runs.
Call(f, args) ==
    IF \/ Len(args) > Len(f.sign)
       \/ \E i \in DOMAIN f.sign : i > Len(args) /\ f.sign[i].default = Empty
      THEN Raised("TypeError")
    ELSE IF f.body = "raise" THEN Raised("ValueError")
    ELSE IF f.body = "none" THEN Returned(<<"None">>)
    ELSE Returned([i \in DOMAIN f.sign |->
                      IF i <= Len(args) THEN args[i] ELSE f.sign[i].default])

\* A wrapper that ends without its return statement.
wrapper_return_none(result) == Returned(<<"None">>)
\* wrapper: return result
wrapper_return(result) == result

\* Input(name=param.name, type=param.annotation, default=None if
\* param.default is inspect.Parameter.empty else param.default)
Input(param) ==
    [name |-> param.name, type |-> param.annotation,
     default |-> IF param.default = Empty THEN "None" ELSE param.default]
\* A form keyed by the parameters' annotations.
form_key_annotation(param) == param.annotation
\* The key of a parameter's entry in the form: param.name
form_key(param) == param.name
\* { param.name: Input(...) for param in sign.parameters.values() }
RECURSIVE form_of(_)
form_of(sign) ==
    IF sign = << >> THEN << >>
    ELSE dict_set(form_of(SubSeq(sign, 1, Len(sign) - 1)),
                  form_key(sign[Len(sign)]), Input(sign[Len(sign)]))
\* Operation(call=f, ..., form=args); name, docs, path, http and type copy
\* route's arguments and f's attributes.
Operation(f) == [call |-> f, form |-> form_of(f.sign)]
NoOperation == [call |-> NoHandler, form |-> << >>]

\* No route is registered.
NoRoute ==
    /\ handler = NoHandler
    /\ info = NoOperation
    /\ wcalls = 0
    /\ fcalls = 0
    /\ wargs = << >>
    /\ fargs = << >>
    /\ outcome = NoOutcome
    /\ stdout = << >>

\* -------------------------------------------------------- LazyObject data

Threads == 1..MaxThreads
\* Objects: None, the object the n-th invocation of a factory made.
None == [kind |-> "None", id |-> 0]
Made(n) == [kind |-> "made", id |-> n]
\* No object: the thread has delegated no access.
Untouched == [kind |-> "untouched", id |-> 0]
\* What a factory does when called: return a new object, return None, raise.
Factories == {"object", "None", "raises"}
\* The operations LazyObject delegates.
Operations == {"__call__", "__getattr__", "__setattr__",
               "__getitem__", "__setitem__"}
\* What Python raises when the operation is applied to None.
NoneError(op) ==
    IF op \in {"__getattr__", "__setattr__"} THEN "AttributeError"
                                             ELSE "TypeError"
NoThread ==
    [pc |-> "idle", op |-> "none", target |-> Untouched, err |-> "none",
     done |-> 0]
\* No LazyObject is constructed.
NoLazyObject ==
    /\ factory = "unset"
    /\ wrapped = None
    /\ lock = 0
    /\ made = 0
    /\ thr = [t \in Threads |-> NoThread]

\* ----------------------------------------------------------- start_server

\* start_server with worker.start() placed before worker.hook("startup").
start_server_swapped(pc) ==
    CASE pc = "construct" -> "start"
      [] pc = "start" -> "hook_startup"
      [] pc = "hook_startup" -> "in_hook_startup"
      [] pc = "in_hook_startup" -> "sig_int"
      [] pc = "sig_int" -> "sig_term"
      [] pc = "sig_term" -> "join"
      [] OTHER -> pc
\* The statements of start_server in order; "join" is the interpreter's exit,
\* which waits for the non-daemon child process.
start_server(pc) ==
    CASE pc = "construct" -> "hook_startup"
      [] pc = "hook_startup" -> "in_hook_startup"
      [] pc = "in_hook_startup" -> "start"
      [] pc = "start" -> "sig_int"
      [] pc = "sig_int" -> "sig_term"
      [] pc = "sig_term" -> "join"
      [] OTHER -> pc

MainAlive == mpc \notin {"exited", "killed", "interrupted"}
\* The main thread runs start_server's body only outside signal handlers.
MainBody == MainAlive /\ hstack = <<>>

HookEntry(event, by) ==
    [event |-> event, by |-> by, stopSet |-> stop_event, wpc |-> wpc]

Init ==
    /\ caps \in WorkerClasses
    /\ mpc = "construct"
    /\ hstack = <<>>
    /\ handlers = [s \in Signals |-> "default"]
    /\ stop_event = FALSE
    /\ wpc = "none"
    /\ werr = "none"
    /\ listener = "none"
    /\ launches = 0
    /\ hookLog = <<>>
    /\ hooksReturned = {}
    /\ sigLog = <<>>
    /\ stopCalls = 0
    /\ sleepsAfterStop = 0
    /\ childInt = "none"
    /\ HTTP_HEADERS = HTTP_HEADERS_default
    /\ conn = [c \in Conns |-> NoConn]
    /\ NoRoute
    /\ NoLazyObject

\* The hook() invocation that returns next: invocations nest, so it is the
\* latest one still in progress.
InProgress == (DOMAIN hookLog) \ hooksReturned
Latest(S) == CHOOSE i \in S : \A j \in S : j <= i

\* worker = HTTPServer(name=..., host=..., port=...)
Construct ==
    /\ MainBody /\ mpc = "construct"
    /\ BaseProcess_init(caps).ok
    /\ stop_event' = BaseProcess_init(caps).event
    /\ mpc' = start_server(mpc)
    /\ UNCHANGED <<httpVars, routeVars, lazyVars, caps, hstack, handlers, workerVars, hookVars, logVars>>

\* worker.hook("startup"): the call
HookStartupCall ==
    /\ MainBody /\ mpc = "hook_startup"
    /\ hookLog' = Append(hookLog, HookEntry("startup", "start_server"))
    /\ mpc' = start_server(mpc)
    /\ UNCHANGED <<httpVars, routeVars, lazyVars, caps, hstack, handlers, stop_event, workerVars,
                   hooksReturned, logVars>>

\* worker.hook("startup"): the return
HookStartupReturn ==
    /\ MainBody /\ mpc = "in_hook_startup"
    /\ hooksReturned' = hooksReturned \cup {Latest(InProgress)}
    /\ mpc' = start_server(mpc)
    /\ UNCHANGED <<httpVars, routeVars, lazyVars, caps, hstack, handlers, stop_event, workerVars, hookLog,
                   logVars>>

\* worker.start(): the child process begins run()
Start ==
    /\ MainBody /\ mpc = "start"
    /\ wpc = "none"
    /\ wpc' = "before_run"
    /\ mpc' = start_server(mpc)
    /\ UNCHANGED <<httpVars, routeVars, lazyVars, caps, hstack, handlers, stop_event, werr, listener,
                   launches, hookVars, logVars>>

\* signal.signal(signal.SIGINT, stop_server)
InstallSigint ==
    /\ MainBody /\ mpc = "sig_int"
    /\ handlers' = [handlers EXCEPT !["SIGINT"] = "stop_server"]
    /\ mpc' = start_server(mpc)
    /\ UNCHANGED <<httpVars, routeVars, lazyVars, caps, hstack, stop_event, workerVars, hookVars, logVars>>

\* signal.signal(signal.SIGTERM, stop_server)
InstallSigterm ==
    /\ MainBody /\ mpc = "sig_term"
    /\ handlers' = [handlers EXCEPT !["SIGTERM"] = "stop_server"]
    /\ mpc' = start_server(mpc)
    /\ UNCHANGED <<httpVars, routeVars, lazyVars, caps, hstack, stop_event, workerVars, hookVars, logVars>>

\* The interpreter's exit has joined the child process.
MainExit ==
    /\ MainBody /\ mpc = "join"
    /\ wpc \in {"returned", "raised"}
    /\ mpc' = "exited"
    /\ UNCHANGED <<httpVars, routeVars, lazyVars, caps, hstack, handlers, stop_event, workerVars, hookVars,
                   logVars>>

\* A signal reaches the main process. With stop_server installed the main
\* thread runs it on top of whatever it was running (another stop_server
\* included); the default action of SIGTERM ends the process, that of SIGINT
\* raises KeyboardInterrupt, which nothing in start_server catches.
Deliver(sig) ==
    /\ MainAlive
    /\ Len(sigLog) < MaxSignals
    /\ sigLog' = Append(sigLog, [sig |-> sig, how |-> handlers[sig],
                                 started |-> wpc # "none"])
    /\ IF handlers[sig] = "stop_server"
         THEN /\ hstack' = Append(hstack, "hook_shutdown")
              /\ mpc' = mpc
         ELSE /\ hstack' = <<>>
              /\ mpc' = IF sig = "SIGTERM" THEN "killed" ELSE "interrupted"
    /\ UNCHANGED <<httpVars, routeVars, lazyVars, caps, handlers, stop_event, workerVars, hookVars,
                   stopCalls, sleepsAfterStop, childInt>>

Top == hstack[Len(hstack)]
SetTop(pc) == [hstack EXCEPT ![Len(hstack)] = pc]
Pop == SubSeq(hstack, 1, Len(hstack) - 1)

\* stop_server: worker.hook("shutdown"), the call
HandlerHookCall ==
    /\ MainAlive /\ hstack # <<>> /\ Top = "hook_shutdown"
    /\ hookLog' = Append(hookLog, HookEntry("shutdown", "stop_server"))
    /\ hstack' = SetTop("in_hook_shutdown")
    /\ UNCHANGED <<httpVars, routeVars, lazyVars, caps, mpc, handlers, stop_event, workerVars,
                   hooksReturned, logVars>>

\* stop_server: worker.hook("shutdown"), the return
HandlerHookReturn ==
    /\ MainAlive /\ hstack # <<>> /\ Top = "in_hook_shutdown"
    /\ hooksReturned' = hooksReturned \cup {Latest(InProgress)}
    /\ hstack' = SetTop("stop")
    /\ UNCHANGED <<httpVars, routeVars, lazyVars, caps, mpc, handlers, stop_event, workerVars, hookLog,
                   logVars>>

\* stop_server: worker.stop(), then the handler returns
HandlerStop ==
    /\ MainAlive /\ hstack # <<>> /\ Top = "stop"
    /\ stop_event' = stop(stop_event)
    /\ stopCalls' = stopCalls + 1
    /\ hstack' = Pop
    /\ UNCHANGED <<httpVars, routeVars, lazyVars, caps, mpc, handlers, workerVars, hookVars, sigLog,
                   sleepsAfterStop, childInt>>

\* ------------------------------------------------------ the worker process

\* The daemon listener thread ends with the worker process.
AfterExit(l) == IF l \in {"none", "failed", "returned"} THEN l ELSE "ended"
\* The listener thread is over: its callable raised or returned.
ListenerOver == listener \in {"failed", "returned"}

\* run(): self.before_run() returns, the try block is entered
BeforeRun ==
    /\ wpc = "before_run"
    /\ wpc' = "run_sync"
    /\ UNCHANGED <<httpVars, routeVars, lazyVars, caps, mainVars, stop_event, werr, listener, launches,
                   hookVars, logVars>>

\* run_sync(): threading.Thread(target=self.server, daemon=True).start();
\* reading self.server raises AttributeError when the class defines none.
LaunchListener ==
    /\ wpc = "run_sync"
    /\ IF "server" \in caps
         THEN /\ wpc' = "poll"
              /\ listener' = "started"
              /\ launches' = launches + 1
              /\ werr' = werr
         ELSE /\ wpc' = "raised"
              /\ werr' = "AttributeError"
              /\ UNCHANGED <<listener, launches>>
    /\ UNCHANGED <<httpVars, routeVars, lazyVars, caps, mainVars, stop_event, hookVars, logVars>>

\* A loop that also ends when the listener thread is over.
PollCheck_watchesListener ==
    /\ wpc = "poll"
    /\ IF loop_exits(stop_event) \/ ListenerOver
         THEN /\ wpc' = "returned"
              /\ listener' = AfterExit(listener)
         ELSE /\ wpc' = "sleep"
              /\ listener' = listener
    /\ UNCHANGED <<httpVars, routeVars, lazyVars, caps, mainVars, stop_event, werr, launches, hookVars,
                   logVars>>
\* run_sync(): the test of `while not self._stop_event.is_set()`
PollCheck ==
    /\ wpc = "poll"
    /\ IF loop_exits(stop_event)
         THEN /\ wpc' = "returned"
              /\ listener' = AfterExit(listener)
         ELSE /\ wpc' = "sleep"
              /\ listener' = listener
    /\ UNCHANGED <<httpVars, routeVars, lazyVars, caps, mainVars, stop_event, werr, launches, hookVars,
                   logVars>>

\* run_sync(): time.sleep(1) returns
Sleep ==
    /\ wpc = "sleep"
    /\ wpc' = "poll"
    /\ sleepsAfterStop' = IF stop_event
                            THEN Min(sleepsAfterStop + 1, MaxSleeps)
                            ELSE sleepsAfterStop
    /\ UNCHANGED <<httpVars, routeVars, lazyVars, caps, mainVars, stop_event, werr, listener, launches,
                   hookVars, sigLog, stopCalls, childInt>>

\* The listener thread: HTTPServer.server binds and serves, or the bind fails
\* and the thread ends with the error.
ListenerBind ==
    /\ listener = "started"
    /\ \E r \in {"serving", "failed"} : listener' = r
    /\ UNCHANGED <<httpVars, routeVars, lazyVars, caps, mainVars, stop_event, wpc, werr, launches,
                   hookVars, logVars>>

\* The listener thread while serving: serve_forever() raises or returns, and
\* the thread ends; nothing in the worker looks at it again.
ListenerEnds ==
    /\ listener = "serving"
    /\ Running(wpc)
    /\ \E r \in {"failed", "returned"} : listener' = r
    /\ UNCHANGED <<httpVars, routeVars, lazyVars, caps, mainVars, stop_event, wpc, werr, launches,
                   hookVars, logVars>>

\* A KeyboardInterrupt reaches the worker process while run() executes: caught
\* inside the try block, propagated out of run() outside it.
ChildInterrupt ==
    /\ Running(wpc)
    /\ childInt' = wpc
    /\ IF in_try(wpc)
         THEN /\ wpc' = "returned"
              /\ werr' = werr
         ELSE /\ wpc' = "raised"
              /\ werr' = "KeyboardInterrupt"
    /\ listener' = AfterExit(listener)
    /\ UNCHANGED <<httpVars, routeVars, lazyVars, caps, mainVars, stop_event, launches, hookVars, sigLog,
                   stopCalls, sleepsAfterStop>>

MainStep ==
    \/ Construct
    \/ HookStartupCall
    \/ HookStartupReturn
    \/ Start
    \/ InstallSigint
    \/ InstallSigterm
    \/ MainExit
    \/ HandlerHookCall
    \/ HandlerHookReturn
    \/ HandlerStop

WorkerStep ==
    \/ BeforeRun
    \/ LaunchListener
    \/ PollCheck
    \/ Sleep

Next ==
    \/ MainStep
    \/ WorkerStep
    \/ ListenerBind
    \/ ListenerEnds
    \/ ChildInterrupt
    \/ \E sig \in Signals : Deliver(sig)

Spec == Init /\ [][Next]_vars

\* The operating system schedules the worker process and the main thread.
FairSpec == Spec /\ WF_vars(WorkerStep) /\ WF_vars(MainStep)

\* ------------------------------------------------------------ the listener

\* The state start_server reaches when nothing interrupts it: the worker polls
\* and the listener thread is inside httpd.serve_forever().
Serving ==
    /\ caps = HTTPServer_caps
    /\ mpc = "join"
    /\ hstack = <<>>
    /\ handlers = [s \in Signals |-> "stop_server"]
    /\ stop_event = FALSE
    /\ wpc = "sleep"
    /\ werr = "none"
    /\ listener = "serving"
    /\ launches = 1
    /\ hookLog = << [event |-> "startup", by |-> "start_server",
                     stopSet |-> FALSE, wpc |-> "none"] >>
    /\ hooksReturned = {1}
    /\ sigLog = <<>>
    /\ stopCalls = 0
    /\ sleepsAfterStop = 0
    /\ childInt = "none"

InitHttp ==
    /\ Serving
    /\ HTTP_HEADERS = HTTP_HEADERS_default
    /\ conn = [c \in Conns |-> NoConn]
    /\ NoRoute
    /\ NoLazyObject

\* Handler threads are daemon threads of the worker process: they run while
\* run() does.
WorkerAlive == Running(wpc)

\* Positions at which a handler occupies the thread that runs it.
Handling == {"accepted", "read", "update", "status", "headers"}
\* A handler inside rfile.read() for bytes its client will never send.
BlockedForever(c) ==
    /\ conn[c].pc = "read"
    /\ conn[c].clen > conn[c].sent

\* A client connects and sends its request line and headers.
Connect(c, r) ==
    /\ listener = "serving"
    /\ conn[c].pc = "closed"
    /\ conn' = [conn EXCEPT ![c] = [NoConn EXCEPT !.pc = "queued",
                    !.verb = r.verb, !.path = r.path, !.cl = r.cl,
                    !.body = r.body, !.sent = Len(r.body)]]
    /\ UNCHANGED <<lifeVars, routeVars, lazyVars, HTTP_HEADERS>>

\* The client sends the body bytes it means to send.
ClientSend(c) ==
    /\ conn[c].pc \notin {"closed", "done", "error"}
    /\ conn[c].arrived < conn[c].sent
    /\ conn' = [conn EXCEPT ![c].arrived = conn[c].sent]
    /\ UNCHANGED <<lifeVars, routeVars, lazyVars, HTTP_HEADERS>>

\* serve_forever(): accept a connection and process it. ThreadingHTTPServer
\* starts a thread for it and goes back to accepting; a plain HTTPServer runs
\* the handler itself and accepts again only when the handler has returned.
Accept(c) ==
    /\ listener = "serving"
    /\ conn[c].pc = "queued"
    /\ \/ server_class = "ThreadingHTTPServer"
       \/ \A d \in Conns : conn[d].pc \notin Handling
    /\ conn' = [conn EXCEPT ![c].pc = "accepted",
                    ![c].sawBlocked = \E d \in Conns : BlockedForever(d)]
    /\ UNCHANGED <<lifeVars, routeVars, lazyVars, HTTP_HEADERS>>

\* do_OPTIONS: send_response(200), the Allow header, end_headers()
do_options(c) ==
    /\ WorkerAlive
    /\ conn[c].pc = "accepted" /\ conn[c].verb = "OPTIONS"
    /\ conn' = [conn EXCEPT ![c].pc = "done", ![c].status = 200,
                    ![c].out = << <<"Allow", AllowValue>> >>]
    /\ UNCHANGED <<lifeVars, routeVars, lazyVars, HTTP_HEADERS>>

\* do_GET .. do_PATCH -> handle_request: HTTPRequest(self, method). The
\* request keeps a reference to HTTP_HEADERS, not a copy; int() raises
\* ValueError on a Content-Length that is no number.
HTTPRequest_init(c) ==
    /\ WorkerAlive
    /\ conn[c].pc = "accepted" /\ conn[c].verb \in HTTP_METHODS
    /\ conn' = IF int(conn[c].cl).ok
                 THEN [conn EXCEPT ![c].pc = "read",
                           ![c].clen = int(conn[c].cl).val]
                 ELSE [conn EXCEPT ![c].pc = "error",
                           ![c].err = "ValueError"]
    /\ UNCHANGED <<lifeVars, routeVars, lazyVars, HTTP_HEADERS>>

\* The bytes rfile.read(n) returns: the first n the client sent.
rfile_read(c, n) == SubSeq(conn[c].body, 1, n)

\* request.input() -> get_content(): rfile.read(content_length) when
\* content_length > 0, which returns once that many bytes have arrived, and
\* .decode("utf-8") of them, else None; JSON.loads of the text; then
\* request.set_cookie("jwtoken", ...). A UnicodeDecodeError is caught nowhere.
get_content(c) ==
    /\ WorkerAlive
    /\ conn[c].pc = "read"
    /\ conn[c].clen > 0 => conn[c].arrived >= conn[c].clen
    /\ conn' =
         IF conn[c].clen > 0
           THEN IF decode(rfile_read(c, conn[c].clen)).ok
                  THEN [conn EXCEPT ![c].pc = "update",
                            ![c].read = conn[c].clen,
                            ![c].input = JSON_loads(
                                decode(rfile_read(c, conn[c].clen)).text),
                            ![c].cookies = <<"jwtoken">>]
                  ELSE [conn EXCEPT ![c].pc = "error",
                            ![c].read = conn[c].clen,
                            ![c].err = "UnicodeDecodeError"]
           ELSE [conn EXCEPT ![c].pc = "update",
                     ![c].input = JSON_loads(<< >>),
                     ![c].cookies = <<"jwtoken">>]
    /\ UNCHANGED <<lifeVars, routeVars, lazyVars, HTTP_HEADERS>>

\* request.response(JSON.dumps(inputs), headers=h):
\* self._internal.headers.update(headers or {}), and _internal.headers is
\* HTTP_HEADERS itself.
response_update(c, h) ==
    /\ WorkerAlive
    /\ conn[c].pc = "update"
    /\ HTTP_HEADERS' = dict_update(HTTP_HEADERS, h)
    /\ conn' = [conn EXCEPT ![c].pc = "status", ![c].percall = h,
                    ![c].data = JSON_dumps(conn[c].input)]
    /\ UNCHANGED <<lifeVars, routeVars, lazyVars>>

\* response(): send_response(status_code), the Content-Type header, and the
\* start of the loop over self._internal.headers.items()
response_status(c) ==
    /\ WorkerAlive
    /\ conn[c].pc = "status"
    /\ conn' = [conn EXCEPT ![c].pc = "headers", ![c].status = 200,
                    ![c].out = << <<"Content-Type", "application/json">> >>,
                    ![c].it = 0, ![c].itSize = Len(HTTP_HEADERS)]
    /\ UNCHANGED <<lifeVars, routeVars, lazyVars, HTTP_HEADERS>>

\* One Set-Cookie line for each registered cookie, in registration order.
SetCookieLines(names) == [i \in DOMAIN names |-> <<"Set-Cookie", names[i]>>]

\* response(): one turn of the loop over the dict's items. The iterator
\* raises RuntimeError when the dict's size changed since the loop began;
\* when the items are exhausted the Set-Cookie lines, end_headers() and
\* wfile.write(data) follow.
response_header(c) ==
    /\ WorkerAlive
    /\ conn[c].pc = "headers"
    /\ conn' =
         IF Len(HTTP_HEADERS) # conn[c].itSize
           THEN [conn EXCEPT ![c].pc = "error", ![c].err = "RuntimeError"]
         ELSE IF conn[c].it < Len(HTTP_HEADERS)
           THEN [conn EXCEPT ![c].it = conn[c].it + 1,
                     ![c].out = Append(conn[c].out,
                                       HTTP_HEADERS[conn[c].it + 1])]
         ELSE [conn EXCEPT ![c].pc = "done",
                   ![c].out = conn[c].out \o SetCookieLines(conn[c].cookies),
                   ![c].wbody = conn[c].data]
    /\ UNCHANGED <<lifeVars, routeVars, lazyVars, HTTP_HEADERS>>

ClientStep(c) ==
    \/ \E r \in Requests : Connect(c, r)
    \/ ClientSend(c)

\* The steps of the handler of connection c, up to its call of response().
HandlerStep(c) ==
    \/ do_options(c)
    \/ HTTPRequest_init(c)
    \/ get_content(c)

ResponseStep(c) ==
    \/ response_status(c)
    \/ response_header(c)

\* handle_request: request.response(JSON.dumps(inputs)), no headers argument
handle_request(c) == response_update(c, NoHeaders)

NextHttp ==
    \/ \E c \in Conns : ClientStep(c)
    \/ \E c \in Conns : Accept(c)
    \/ \E c \in Conns : HandlerStep(c)
    \/ \E c \in Conns : handle_request(c)
    \/ \E c \in Conns : ResponseStep(c)

SpecHttp == InitHttp /\ [][NextHttp]_vars

\* Clients that mean to send a body send it; the listener thread and every
\* handler thread are scheduled.
\* For one connection at most one of these is enabled at a time.
ServeStep(c) ==
    Accept(c) \/ HandlerStep(c) \/ handle_request(c) \/ ResponseStep(c)

FairHttp ==
    /\ SpecHttp
    /\ \A c \in Conns : WF_vars(ClientSend(c)) /\ WF_vars(ServeStep(c))

NextApi ==
    \/ \E c \in Conns : ClientStep(c)
    \/ \E c \in Conns : Accept(c)
    \/ \E c \in Conns : HandlerStep(c)
    \/ \E c \in Conns, h \in PerCallHeaders : response_update(c, h)
    \/ \E c \in Conns : ResponseStep(c)

SpecApi == InitHttp /\ [][NextApi]_vars

\* One connection served by the shipped handler, the request drawn from
\* BodyRequests.
NextReq ==
    \/ \E r \in BodyRequests : Connect(1, r)
    \/ ClientSend(1)
    \/ Accept(1)
    \/ HandlerStep(1)
    \/ handle_request(1)
    \/ ResponseStep(1)

SpecReq == InitHttp /\ [][NextReq]_vars

\* ----------------------------------------------------------------- router

\* route(url_string, method, prefix)(f): the_wrapper builds the wrapper, reads
\* f's signature into the form, builds and prints the Operation and returns
\* the wrapper.
the_wrapper(f) ==
    /\ handler = NoHandler
    /\ handler' = f
    /\ info' = Operation(f)
    /\ stdout' = Append(stdout, "Operation Registered")
    /\ UNCHANGED <<lifeVars, httpVars, lazyVars, wcalls, fcalls, wargs, fargs, outcome>>

\* wrapper(*args): print("# Before"); result = f(*args); print("# After");
\* return result. An exception f raises leaves the wrapper at once.
wrapper(args) ==
    /\ handler # NoHandler
    /\ wcalls < MaxCalls
    /\ wcalls' = wcalls + 1
    /\ wargs' = args
    /\ fcalls' = fcalls + 1
    /\ fargs' = args
    /\ IF Call(handler, args).kind = "raise"
         THEN /\ outcome' = Call(handler, args)
              /\ stdout' = Append(stdout, "# Before")
         ELSE /\ outcome' = wrapper_return(Call(handler, args))
              /\ stdout' = stdout \o <<"# Before", "# After">>
    /\ UNCHANGED <<lifeVars, httpVars, lazyVars, handler, info>>

NextRoute ==
    \/ \E f \in Handlers : the_wrapper(f)
    \/ \E args \in ArgLists : wrapper(args)

\* Routes are registered when the module that defines them is imported, with
\* no server started.
InitRoute == Init /\ caps = HTTPServer_caps
SpecRoute == InitRoute /\ [][NextRoute]_vars

\* ------------------------------------------------------------- LazyObject

\* LazyObject(factory): the three slots are set through __setattr__'s branch
\* for names in __slots__.
LazyObject_init(f) ==
    /\ factory = "unset"
    /\ factory' = f
    /\ wrapped' = None
    /\ lock' = 0
    /\ UNCHANGED <<lifeVars, httpVars, routeVars, made, thr>>

\* A thread enters __call__, __getattr__, __setattr__ (of a name outside
\* __slots__), __getitem__ or __setitem__.
Access(t, op) ==
    /\ factory # "unset"
    /\ thr[t].pc = "idle"
    /\ thr[t].done < MaxAccesses
    /\ thr' = [thr EXCEPT ![t].pc = "check", ![t].op = op,
                          ![t].target = Untouched, ![t].err = "none"]
    /\ UNCHANGED <<lifeVars, httpVars, routeVars, factory, wrapped, lock, made>>

\* _initialize: if self._wrapped is None
initialize_check(t) ==
    /\ thr[t].pc = "check"
    /\ thr' = [thr EXCEPT ![t].pc =
                   IF wrapped = None THEN "acquire" ELSE "delegate"]
    /\ UNCHANGED <<lifeVars, httpVars, routeVars, factory, wrapped, lock, made>>

\* _initialize: with self._lock
initialize_acquire(t) ==
    /\ thr[t].pc = "acquire"
    /\ lock = 0
    /\ lock' = t
    /\ thr' = [thr EXCEPT ![t].pc = "recheck"]
    /\ UNCHANGED <<lifeVars, httpVars, routeVars, factory, wrapped, made>>

\* _initialize, under the lock: if self._wrapped is None
initialize_recheck(t) ==
    /\ thr[t].pc = "recheck"
    /\ thr' = [thr EXCEPT ![t].pc =
                   IF wrapped = None THEN "factory" ELSE "release"]
    /\ UNCHANGED <<lifeVars, httpVars, routeVars, factory, wrapped, lock, made>>

\* _initialize: self._wrapped = self._factory(). A factory that raises
\* leaves _wrapped as it was; the with block releases the lock and the
\* exception ends the access.
initialize_factory(t) ==
    /\ thr[t].pc = "factory"
    /\ made' = made + 1
    /\ IF factory = "raises"
         THEN /\ thr' = [thr EXCEPT ![t].pc = "idle",
                                    ![t].err = "FactoryError",
                                    ![t].done = thr[t].done + 1]
              /\ lock' = 0
              /\ wrapped' = wrapped
         ELSE /\ thr' = [thr EXCEPT ![t].pc = "release"]
              /\ lock' = lock
              /\ wrapped' = IF factory = "None" THEN None ELSE Made(made + 1)
    /\ UNCHANGED <<lifeVars, httpVars, routeVars, factory>>

\* _initialize: the end of the with block
initialize_release(t) ==
    /\ thr[t].pc = "release"
    /\ lock' = 0
    /\ thr' = [thr EXCEPT ![t].pc = "delegate"]
    /\ UNCHANGED <<lifeVars, httpVars, routeVars, factory, wrapped, made>>

\* The operation applied to self._wrapped, read again after _initialize.
delegate(t) ==
    /\ thr[t].pc = "delegate"
    /\ thr' = [thr EXCEPT ![t].pc = "idle", ![t].target = wrapped,
                          ![t].err = IF wrapped = None
                                       THEN NoneError(thr[t].op) ELSE "none",
                          ![t].done = thr[t].done + 1]
    /\ UNCHANGED <<lifeVars, httpVars, routeVars, factory, wrapped, lock, made>>

NextLazy ==
    \/ \E f \in Factories : LazyObject_init(f)
    \/ \E t \in Threads, op \in Operations : Access(t, op)
    \/ \E t \in Threads : initialize_check(t)
    \/ \E t \in Threads : initialize_acquire(t)
    \/ \E t \in Threads : initialize_recheck(t)
    \/ \E t \in Threads : initialize_factory(t)
    \/ \E t \in Threads : initialize_release(t)
    \/ \E t \in Threads : delegate(t)

\* A LazyObject is a module-level helper: it is used with no server started.
InitLazy == Init /\ caps = HTTPServer_caps
SpecLazy == InitLazy /\ [][NextLazy]_vars

\* ------------------------------------------------------------------ claims

\* C1: the "shutdown" hook is invoked only after stop() has set the
\* cancellation signal and the poll loop has observed it and exited.
C1_ShutdownHookOnlyAfterLoopExit ==
    \A i \in DOMAIN hookLog :
        hookLog[i].event = "shutdown" =>
            hookLog[i].stopSet /\ hookLog[i].wpc = "returned"

\* C2: a worker whose class lacks "server" or "on_event" is rejected at
\* construction: start_server never gets past the constructor with it, no
\* listener thread is started and run() is not where the absence shows.
C2_MissingCapabilityFailsAtConstruction ==
    caps # Capabilities =>
        /\ mpc \in {"construct", "killed", "interrupted"}
        /\ wpc = "none"
        /\ launches = 0
        /\ werr # "AttributeError"

\* C3: once stop() has set the event while run() is in its poll loop, the
\* loop completes at most one more sleep, and (the worker being scheduled)
\* run() returns.
C3_StopEndsRunWithinOneSleep ==
    /\ [](sleepsAfterStop <= 1)
    /\ (stop_event /\ wpc \in {"poll", "sleep"}) ~> (wpc = "returned")
C3_Witness ==
    /\ stop_event /\ stopCalls >= 1
    /\ sleepsAfterStop = 1
    /\ wpc = "returned"
    /\ childInt = "none"

\* C4: every SIGINT or SIGTERM delivered after the worker was started runs
\* stop_server, and so calls stop(): once no handler is in progress the
\* event is set.
C4_EverySignalAfterStartCallsStop ==
    /\ \A i \in DOMAIN sigLog :
           sigLog[i].started => sigLog[i].how = "stop_server"
    /\ (hstack = <<>> /\ \E i \in DOMAIN sigLog : sigLog[i].started)
           => stop_event

\* C5: the cancellation signal is unset until stop() is first called and,
\* once set, is never reset, whatever is called afterwards.
C5_StopEventMonotonic ==
    /\ [](stopCalls = 0 => ~stop_event)
    /\ [][stop_event => stop_event']_vars
C5_Witness ==
    stop_event /\ stopCalls = 2 /\ wpc = "returned"

\* C6: a KeyboardInterrupt reaching run() anywhere, in before_run or in the
\* poll loop, makes run() return; it never leaves run() as an error.
C6_InterruptNeverPropagates ==
    childInt # "none" => (wpc = "returned" /\ werr # "KeyboardInterrupt")

StartupReturned ==
    /\ 1 \in hooksReturned
    /\ hookLog[1].event = "startup"
    /\ hookLog[1].wpc = "none"
ListenerBeforePoll == wpc \in {"poll", "sleep"} => launches = 1

OwnLines == { <<"Content-Type", "application/json">>,
              <<"Set-Cookie", "jwtoken">> }

\* C8: the per-call headers passed to one request's response() appear only
\* in that request's response: every header line a response carries is a
\* default header, a line of its own, or one of its own per-call headers.
C8_PerCallHeadersStayInTheirResponse ==
    \A c \in Conns :
        conn[c].verb \in HTTP_METHODS =>
            Range(conn[c].out) \subseteq
                Range(HTTP_HEADERS_default) \cup OwnLines
                    \cup Range(conn[c].percall)

\* A request the handler can serve: a Content-Length that is a number, and a
\* client that sends the body it declared.
Servable(c) ==
    \/ conn[c].verb = "OPTIONS"
    \/ int(conn[c].cl).ok /\ int(conn[c].cl).val <= conn[c].sent

\* C9: every connection is handled on a thread of its own: a servable
\* request that has reached the listener is accepted and answered to
\* completion, also while another handler is blocked reading a body its
\* client never sends.
C9_BlockedHandlerStallsNoOther ==
    \A c \in Conns :
        (conn[c].pc = "queued" /\ Servable(c)) ~> (conn[c].pc = "done")
C9_Witness ==
    \E b \in Conns, c \in Conns :
        /\ BlockedForever(b)
        /\ conn[c].sawBlocked
        /\ conn[c].verb = "POST" /\ conn[c].read = 1
        /\ conn[c].pc = "done" /\ conn[c].status = 200

\* C10: every response written, OPTIONS included, carries a Content-Type
\* header and X-Content-Type-Options: nosniff.
C10_EveryResponseHasContentTypeAndNosniff ==
    \A c \in Conns :
        conn[c].pc = "done" =>
            /\ "Content-Type" \in Keys(conn[c].out)
            /\ <<"X-Content-Type-Options", "nosniff">> \in Range(conn[c].out)

\* The response envelope around a decoded body D.
Envelope(D) == Mapping(<< <<"\"input\"", D>> >>)
\* The request carries a body and declares its length.
CorrectLength(c) ==
    /\ conn[c].body # << >>
    /\ int(conn[c].cl).ok
    /\ int(conn[c].cl).val = Len(conn[c].body)
\* C11: the response to a non-OPTIONS request that carries a body with a
\* correct content length has status 200, content type application/json and
\* the body {"input": D}, D being the decoded request body.
C11_ResponseIsInputEnvelope ==
    \A c \in Conns :
        (conn[c].verb \in HTTP_METHODS /\ CorrectLength(c)
         /\ conn[c].pc = "done") =>
            /\ conn[c].status = 200
            /\ <<"Content-Type", "application/json">> \in Range(conn[c].out)
            /\ conn[c].wbody = JSON_dumps(Envelope(conn[c].input))

\* input() is over: it returned or raised.
InputOver(c) ==
    \/ conn[c].pc \in {"update", "status", "headers", "done"}
    \/ conn[c].err = "UnicodeDecodeError"
\* The bytes get_content took from the stream, none when it read nothing.
BodyRead(c) ==
    IF conn[c].clen > 0 THEN rfile_read(c, conn[c].clen) ELSE << >>
\* Bytes that are no UTF-8, or text that is no JSON document (the empty text
\* of an absent or empty body included).
Malformed(bytes) ==
    \/ ~decode(bytes).ok
    \/ ~json_loads(decode(bytes).text).ok
\* C12: for every malformed body (absent, empty, invalid JSON, bytes that are
\* not UTF-8) input() raises no error and returns the empty mapping.
C12_MalformedBodyDecodesToEmptyMapping ==
    \A c \in Conns :
        (conn[c].verb \in HTTP_METHODS /\ InputOver(c)
         /\ Malformed(BodyRead(c))) =>
            /\ conn[c].err # "UnicodeDecodeError"
            /\ conn[c].input = EmptyMapping

\* C13: whatever the Content-Length header, the parsed request's
\* content_length is an integer >= 0, and the body stream is read iff
\* content_length > 0, for exactly content_length bytes.
C13_ContentLengthNonNegative ==
    \A c \in Conns :
        (conn[c].verb \in HTTP_METHODS
         /\ conn[c].pc \notin {"closed", "queued", "accepted"}) =>
            /\ conn[c].err # "ValueError"
            /\ conn[c].clen >= 0
            /\ InputOver(c) =>
                 conn[c].read = (IF conn[c].clen > 0 THEN conn[c].clen ELSE 0)

\* C17: an OPTIONS request to any path is answered with status 200, the
\* Allow header "GET, POST, PUT, DELETE, PATCH, OPTIONS" and an empty body;
\* the request is not parsed and no body byte is read.
C17_OptionsAnswersAllowWithoutReading ==
    \A c \in Conns :
        conn[c].verb = "OPTIONS" =>
            /\ conn[c].pc \in {"queued", "accepted", "done"}
            /\ conn[c].clen = 0 /\ conn[c].read = 0
            /\ conn[c].input = NoValue
            /\ conn[c].err = "none"
            /\ conn[c].pc = "done" =>
                 /\ conn[c].status = 200
                 /\ conn[c].out =
                      << <<"Allow", "GET, POST, PUT, DELETE, PATCH, OPTIONS">> >>
                 /\ conn[c].wbody = << >>
C17_Witness ==
    \E c \in Conns :
        /\ conn[c].verb = "OPTIONS" /\ conn[c].pc = "done"
        /\ conn[c].path = "/anything"
        /\ CorrectLength(c) /\ conn[c].arrived = Len(conn[c].body)

\* C14: calling the wrapper route(...) returned invokes the original handler
\* exactly once with the same arguments and ends as a direct call of the
\* handler does: the same return value or the same raised error.
C14_WrapperIsTransparent ==
    /\ fcalls = wcalls
    /\ wcalls > 0 =>
          /\ fargs = wargs
          /\ outcome = Call(handler, wargs)
C14_Witness ==
    /\ wcalls = 2
    /\ Len(handler.sign) = 2 /\ handler.body = "echo"
    /\ Len(wargs) = 1
    /\ outcome.kind = "return" /\ outcome.val = <<"1", "None">>

\* C15: the Operation's form has one Input per declared parameter, in
\* declaration order, each keyed by and carrying the parameter's name; the
\* entries are as many as the parameters and the keys are unique.
C15_FormFollowsDeclaredParameters ==
    handler # NoHandler =>
        /\ Len(info.form) = Len(handler.sign)
        /\ \A i \in DOMAIN handler.sign :
              /\ info.form[i][1] = handler.sign[i].name
              /\ info.form[i][2].name = handler.sign[i].name
        /\ Cardinality(Keys(info.form)) = Len(info.form)
C15_Witness ==
    /\ handler # NoHandler
    /\ Len(handler.sign) = 2
    /\ handler.sign[1].name = "b" /\ handler.sign[2].name = "a"
    /\ handler.sign[1].annotation = handler.sign[2].annotation
    /\ Len(info.form) = 2

\* C16: hooks are never re-entered: for any interleaving of start-up and
\* delivered signals at most one hook() invocation is in progress at a time.
C16_HooksNeverReentered ==
    Cardinality(InProgress) <= 1

\* C18: the Input of a parameter declared with no default differs in its
\* default from the Input of a parameter declared with any default, an
\* explicit None included.
C18_NoDefaultDistinguishable ==
    \A i, j \in DOMAIN info.form :
        (handler.sign[i].default = Empty /\ handler.sign[j].default # Empty)
            => info.form[i][2].default # info.form[j][2].default

\* C19: over one worker lifetime the "shutdown" hook is invoked at most
\* once, however many signals are delivered.
C19_ShutdownHookAtMostOnce ==
    Cardinality({i \in DOMAIN hookLog : hookLog[i].event = "shutdown"}) <= 1

\* C20: the poll loop does not depend on the listener: the listener is
\* launched at most once, its ending leaves run() where it is, and run()
\* returns only once stop() was called or an interrupt arrived.
C20_PollLoopIndependentOfListener ==
    /\ [](launches <= 1)
    /\ [](ListenerOver => wpc \in {"poll", "sleep", "returned"})
    /\ [](wpc = "returned" => (stop_event \/ childInt # "none"))
    /\ [][(ListenerOver' /\ ~ListenerOver) => wpc' = wpc]_vars
C20_Witness ==
    /\ listener = "returned" /\ launches = 1
    /\ wpc = "returned" /\ stop_event /\ childInt = "none"
    /\ sleepsAfterStop = 1

\* C21: for any factory and any number of threads making first accesses, the
\* factory is invoked at most once over the object's lifetime and every
\* access is delegated to one and the same wrapped object.
C21_FactoryInvokedAtMostOnce ==
    /\ made <= 1
    /\ \A t, u \in Threads :
          (thr[t].target # Untouched /\ thr[u].target # Untouched)
              => thr[t].target = thr[u].target

====
